---- MODULE Spec2Model ----
(***************************************************************************)
(* Model of the draw-pool registry of otclient                             *)
(* (src/src/framework/graphics/drawpool.cpp).                              *)
(*                                                                         *)
(* The registry owns one pool per pool type.  A linked action populates a  *)
(* pool through the add-primitive calls, draw() replays and clears every   *)
(* pool.  In multithreaded mode each pool's action runs on the pool's own  *)
(* worker thread and draw() joins the workers first.                       *)
(***************************************************************************)
EXTENDS Integers, Sequences, FiniteSets, TLC

(***************************************************************************)
(* Bounds of the model.                                                    *)
(***************************************************************************)
\* accepted add-primitive calls of a run, all pools together
MaxCalls == 1
\* linked actions started in a run, all pools together
MaxLinks == 2
\* accepted calls of a run in the specification of add() alone (SpecAdd)
MaxAdds == 3
\* accepted calls and linked actions of a run in the specification of frames (SpecFrames)
MaxFrameCalls == 3
MaxFrameLinks == 3
\* accepted calls and linked actions of a run in the specification of replay (SpecReplay)
MaxReplayCalls == 3
MaxReplayLinks == 2
\* light sources pending at a time in the specification of the light view (SpecLight)
MaxSources == 3
\* calls of the specification of addRepeated
MaxRepeatCalls == 3

(***************************************************************************)
(* The registry's pools, in the order of m_pools (the PoolType order).     *)
(***************************************************************************)
PoolTypes == <<"MAP", "TEXT">>
Pools == {PoolTypes[i] : i \in 1..Len(PoolTypes)}
NoPool == "nullptr"

\* Pool::isFramed(): MAP was made by createPoolF, TEXT by createPool
isFramed(p) == p = "MAP"

\* the owning thread, and one population worker per pool (named as the pool)
MainThread == "main"
Threads == {MainThread} \cup Pools

(***************************************************************************)
(* Textures: the collaborators' answers to isEmpty / isOpaque /            *)
(* canSuperimposed for a fixed set of textures.                            *)
(***************************************************************************)
NoTexture == "nullptr"
Textures == {"tile", "glass", "wall", "empty"}
isEmpty(t) == t = "empty"
isOpaque(t) == t \in {"tile", "wall"}
canSuperimposed(t) == t \in {"tile", "glass"}

(***************************************************************************)
(* Geometry: rect 0 is the empty Rect, point 0 the null Point.             *)
(***************************************************************************)
EmptyRect == 0
NullPoint == 0
\* Rect(Point(), texture->getSize()): empty for a zero-size texture
TextureRect(t) == IF isEmpty(t) THEN EmptyRect ELSE 1

(***************************************************************************)
(* Painter::PainterState with its texture; paint 0 is the value-           *)
(* initialised state `{}` that addAction stores.                           *)
(***************************************************************************)
RenderState(ps, texture) == [paint |-> ps, texture |-> texture]
DefaultState == RenderState(0, NoTexture)

\* the declared default of add/addRepeated's drawMode parameter
DefaultDrawMode == "Triangles"

(***************************************************************************)
(* Pool::DrawMethod{type, rects, points, dest, intValue}                   *)
(***************************************************************************)
DrawMethod(type) ==
    [type |-> type, rects |-> <<EmptyRect, EmptyRect>>,
     points |-> <<NullPoint, NullPoint, NullPoint>>,
     dest |-> NullPoint, intValue |-> 0]

(***************************************************************************)
(* Pool::DrawObject{state, coordsBuffer, drawMode, drawMethods, action}.   *)
(* coordsBuffer is <<>> for nullptr, else <<buffer>>; action 0 is the      *)
(* empty std::function.                                                    *)
(***************************************************************************)
NoBuffer == <<>>
NoAction == 0
DrawObject(state, coordsBuffer, drawMode, drawMethods, action) ==
    [state |-> state, coordsBuffer |-> coordsBuffer, drawMode |-> drawMode,
     drawMethods |-> drawMethods, action |-> action]

\* std::shared_ptr<CoordsBuffer>(&coordsBuffer, no-op deleter): the caller's buffer
CallerBuffer(id) == <<[owner |-> "caller", coords |-> <<<<"vertices", id>>>>]>>

(***************************************************************************)
(* Sequence helpers.                                                       *)
(***************************************************************************)
RemoveAt(s, i) == [j \in 1..(Len(s) - 1) |-> IF j < i THEN s[j] ELSE s[j + 1]]
ReplaceLast(s, x) == [s EXCEPT ![Len(s)] = x]
RECURSIVE Flatten(_)
Flatten(ss) == IF ss = <<>> THEN <<>> ELSE Head(ss) \o Flatten(Tail(ss))

(***************************************************************************)
(* addRepeated(): find_if over the whole list (lines 86-95).               *)
(***************************************************************************)
FindState(list, currentState) ==
    LET hits == {i \in 1..Len(list) : list[i].state = currentState}
    IN IF hits = {} THEN 0 ELSE CHOOSE i \in hits : \A j \in hits : i <= j

\* the search looking at the last DrawObject only, as add() does
AddRepeatedToList_LastOnly(list, ps, texture, method, drawMode) ==
    LET currentState == RenderState(ps, texture)
    IN IF list # <<>> /\ list[Len(list)].state = currentState
       THEN [list EXCEPT ![Len(list)].drawMethods = Append(@, method)]
       ELSE Append(list, DrawObject(currentState, NoBuffer, drawMode, <<method>>, NoAction))

AddRepeatedToList(list, ps, texture, method, drawMode) ==
    LET currentState == RenderState(ps, texture)
        itFind == FindState(list, currentState)
    IN IF itFind # 0
       THEN [list EXCEPT ![itFind].drawMethods = Append(@, method)]
       ELSE Append(list, DrawObject(currentState, NoBuffer, drawMode, <<method>>, NoAction))

(***************************************************************************)
(* add(): the pruning scan of the last DrawObject (lines 114-125).         *)
(***************************************************************************)
\* the scan without its opaque-over-superimposable alternative
PruneMatch_SameStateOnly(prevObj, prevMtd, sameState, texture, method) ==
    /\ prevMtd.dest = method.dest
    /\ sameState /\ prevMtd.rects[2] = method.rects[2]

PruneMatch(prevObj, prevMtd, sameState, texture, method) ==
    /\ prevMtd.dest = method.dest
    /\ \/ sameState /\ prevMtd.rects[2] = method.rects[2]
       \/ isOpaque(texture) /\ canSuperimposed(prevObj.state.texture)

\* index of the first method the scan erases, 0 when it erases none
PruneIndex(prevObj, sameState, texture, method) ==
    LET hits == {i \in 1..Len(prevObj.drawMethods) :
                    PruneMatch(prevObj, prevObj.drawMethods[i], sameState, texture, method)}
    IN IF hits = {} THEN 0 ELSE CHOOSE i \in hits : \A j \in hits : i <= j

\* the scan run without the hasDest test
Prune_NoHasDest(prevObj, sameState, texture, method) ==
    LET i == PruneIndex(prevObj, sameState, texture, method)
    IN IF i = 0 THEN prevObj.drawMethods ELSE RemoveAt(prevObj.drawMethods, i)

Prune(prevObj, sameState, texture, method) ==
    LET hasDest == method.dest # NullPoint
        i == IF hasDest THEN PruneIndex(prevObj, sameState, texture, method) ELSE 0
    IN IF i = 0 THEN prevObj.drawMethods ELSE RemoveAt(prevObj.drawMethods, i)

\* add() merging into the first object of equal state, wherever it is
AddToList_AnyObject(list, ps, texture, method, drawMode) ==
    LET currentState == RenderState(ps, texture)
        itFind == FindState(list, currentState)
    IN IF itFind # 0
       THEN [list EXCEPT ![itFind].drawMode = "Triangles",
                         ![itFind].drawMethods = Append(@, method)]
       ELSE Append(list, DrawObject(currentState, NoBuffer, drawMode, <<method>>, NoAction))

(***************************************************************************)
(* add(): the pool's list after add(texture, method, drawMode) under the   *)
(* painter state ps (lines 100-101, 106-134).                              *)
(***************************************************************************)
AddToList(list, ps, texture, method, drawMode) ==
    LET currentState == RenderState(ps, texture)
        fresh == DrawObject(currentState, NoBuffer, drawMode, <<method>>, NoAction)
    IN IF list # <<>>
       THEN LET prevObj == list[Len(list)]
                sameState == prevObj.state = currentState
                kept == Prune(prevObj, sameState, texture, method)
            IN IF sameState
               THEN ReplaceLast(list, [prevObj EXCEPT !.drawMode = "Triangles",
                                                      !.drawMethods = Append(kept, method)])
               ELSE Append(ReplaceLast(list, [prevObj EXCEPT !.drawMethods = kept]), fresh)
       ELSE <<fresh>>

(***************************************************************************)
(* drawObject(): the geometry addCoords builds from the object's methods   *)
(* (lines 180-202).  DRAW_FILL_COORDS and DRAW_TEXTURE_COORDS add nothing. *)
(***************************************************************************)
MethodCoords(method, drawMode) ==
    CASE method.type = "DRAW_BOUNDING_RECT" ->
            <<<<"addBoudingRect", method.rects[1], method.intValue>>>>
      [] method.type \in {"DRAW_FILLED_RECT", "DRAW_REPEATED_FILLED_RECT"} ->
            <<<<"addRect", method.rects[1]>>>>
      [] method.type = "DRAW_FILLED_TRIANGLE" ->
            <<<<"addTriangle", method.points>>>>
      [] method.type \in {"DRAW_TEXTURED_RECT", "DRAW_REPEATED_TEXTURED_RECT"} ->
            IF drawMode = "Triangles"
            THEN <<<<"addRect", method.rects[1], method.rects[2]>>>>
            ELSE <<<<"addQuad", method.rects[1], method.rects[2]>>>>
      [] method.type = "DRAW_UPSIDEDOWN_TEXTURED_RECT" ->
            IF drawMode = "Triangles"
            THEN <<<<"addUpsideDownRect", method.rects[1], method.rects[2]>>>>
            ELSE <<<<"addUpsideDownQuad", method.rects[1], method.rects[2]>>>>
      [] OTHER -> <<>>

addCoords(obj) ==
    Flatten([i \in 1..Len(obj.drawMethods) |-> MethodCoords(obj.drawMethods[i], obj.drawMode)])

\* the buffer rebuilt on every run
CacheObject_Always(obj) ==
    [obj EXCEPT !.coordsBuffer = <<[owner |-> "pool", coords |-> addCoords(obj)]>>]

\* drawObject() on a population thread: cache the CoordsBuffer once (lines 205-211)
CacheObject(obj) ==
    IF obj.coordsBuffer = NoBuffer
    THEN [obj EXCEPT !.coordsBuffer = <<[owner |-> "pool", coords |-> addCoords(obj)]>>]
    ELSE obj

\* drawObject() on the owning thread: the rasterizer calls it issues (lines 213-229)
SubmitObject(obj) ==
    IF obj.action # NoAction THEN <<<<"action", obj.action>>>>
    ELSE IF obj.drawMethods = <<>> THEN <<>>
    ELSE <<<<"executeState", obj.state>>, <<"setTexture", obj.state.texture>>,
           <<"drawCoords",
             IF obj.coordsBuffer # NoBuffer THEN obj.coordsBuffer[1].coords ELSE addCoords(obj),
             obj.drawMode>>>>

\* the list replayed from its end
SubmitAll_Reversed(list) ==
    Flatten([i \in 1..Len(list) |-> SubmitObject(list[Len(list) + 1 - i])])

SubmitAll(list) == Flatten([i \in 1..Len(list) |-> SubmitObject(list[i])])
CacheAll(list) == [i \in 1..Len(list) |-> CacheObject(list[i])]

(***************************************************************************)
(* PoolFramed's status: the committed snapshot and the running hash.       *)
(* hash_combine is kept symbolic (collision free): the seed paired with    *)
(* what is folded in.                                                      *)
(***************************************************************************)
InitialHash == <<>>
HashCombine(seed, texture, method) == <<seed, texture, method>>
updateHash(st, texture, method) == [st EXCEPT !.current = HashCombine(@, texture, method)]
resetCurrentStatus(st) == [st EXCEPT !.current = InitialHash]
updateStatus(st) == [st EXCEPT !.committed = st.current]
hasModification(st) == st.committed # st.current

(***************************************************************************)
(* State.                                                                  *)
(***************************************************************************)
VARIABLES
    multiThread,    \* m_multiThread, set once at startup
    currentPool,    \* m_currentPool, the process-wide slot
    tCurrentPool,   \* T_CURRENT_POOL, one slot per thread
    objects,        \* m_objects of every pool
    status,         \* PoolFramed status of every framed pool
    pc,             \* where each thread is: "idle", "build"; main also "join", "draw"
    idx,            \* draw(): index into m_pools of the loop in progress
    failed,         \* a null current pool was dereferenced
    gpu,            \* rasterizer and target calls of the handler in progress or last run
    log,            \* history: per pool, the accepted calls since its list was cleared
    prevFrame,      \* history: per framed pool, what the last draw() saw and did
    calls,          \* history: accepted add-primitive calls so far
    links,          \* history: linked actions started so far
    budget,         \* the accepted calls and linked actions the environment makes at most
    last,           \* history: the last call made
    sources,        \* LightView::m_sources
    dark,           \* LightView::isDark(), decided by the global light
    enabled,        \* the light pool's enable flag
    lightOut,       \* registry calls of the LightView::draw in progress or last run
    lightOp         \* history: the last LightView call made, with the light it took

poolVars == <<multiThread, currentPool, tCurrentPool, objects, status, pc, idx, failed,
              gpu, log, prevFrame, calls, links, budget, last>>
lightVars == <<sources, dark, enabled, lightOut, lightOp>>
vars == <<poolVars, lightVars>>

isOnThread(t) == tCurrentPool[t] # NoPool
getCurrentPool(t) == IF multiThread THEN tCurrentPool[t] ELSE currentPool

\* a framed pool's record of a draw(): the calls it had seen, whether the target was
\* drawable, whether the hash differed from the snapshot, whether the target was
\* re-rendered; whether it was the pool's first draw(), whether the draw() before
\* found the target drawable, and whether that one had seen the same calls
NoFrame == [drawn |-> FALSE, log |-> <<>>, drawable |-> FALSE, modified |-> FALSE,
            rendered |-> FALSE, first |-> FALSE, afterDrawable |-> FALSE, repeats |-> FALSE]
\* a call of an add primitive: whether the caller was running a linked action,
\* whether its per-thread slot was set, and whether the input was malformed;
\* a step of a linked action: whether a population worker took it and whether it
\* wrote the process-wide slot m_currentPool; NoCall after any other step
NoCall == [op |-> "none", building |-> FALSE, onThread |-> FALSE, malformed |-> FALSE,
           worker |-> FALSE, wroteShared |-> FALSE]
Call(t, malformed) ==
    [NoCall EXCEPT !.op = "call", !.building = pc[t] = "build", !.onThread = isOnThread(t),
                   !.malformed = malformed]
LinkStep(t, wroteShared) ==
    [NoCall EXCEPT !.op = "link", !.worker = t # MainThread, !.wroteShared = wroteShared]
\* draw() has just returned
DrawReturned == [NoCall EXCEPT !.op = "draw"]

LinkEntry == [op |-> "link", state |-> DefaultState, method |-> DrawMethod("none"),
              drawMode |-> "None"]
Entry(op, state, method, drawMode) ==
    [op |-> op, state |-> state, method |-> method, drawMode |-> drawMode]

\* LightView after construction, with no global light set yet
InitLightView ==
    /\ sources = <<>>
    /\ lightOut = <<>>
    /\ lightOp = [op |-> "none", light |-> <<>>]

InitPools ==
    /\ currentPool = NoPool
    /\ tCurrentPool = [t \in Threads |-> NoPool]
    /\ objects = [p \in Pools |-> <<>>]
    /\ status = [p \in Pools |-> [committed |-> InitialHash, current |-> InitialHash]]
    /\ pc = [t \in Threads |-> "idle"]
    /\ idx = 0
    /\ failed = FALSE
    /\ gpu = <<>>
    /\ log = [p \in Pools |-> <<>>]
    /\ prevFrame = [p \in Pools |-> NoFrame]
    /\ calls = 0
    /\ links = 0
    /\ last = NoCall

InitCommon == InitPools /\ InitLightView /\ dark = FALSE /\ enabled = TRUE

\* the state after construction, the mode and the environment's budget given
InitWith(mt, maxCalls, maxLinks) ==
    /\ multiThread = mt
    /\ budget = [calls |-> maxCalls, links |-> maxLinks]
    /\ InitCommon

(***************************************************************************)
(* What the specification calls a malformed input of an add-primitive call *)
(* (recorded in `last`, read by no action).                                *)
(***************************************************************************)
BadRect(dest) == dest = EmptyRect
BadTexture(texture) == texture # NoTexture /\ isEmpty(texture)
BadTexturedRect(dest, texture, src) == BadRect(dest) \/ BadRect(src) \/ BadTexture(texture)
BadTriangle(a, b, c) == Cardinality({a, b, c}) < 3
BadBoundingRect(dest, innerLineWidth) == BadRect(dest) \/ innerLineWidth = 0

(***************************************************************************)
(* Frames of the call actions.                                             *)
(***************************************************************************)
\* a thread that can make a call now: main is not inside draw(); workers exist
\* only in multithreaded mode
CanCall(t) ==
    /\ ~failed
    /\ pc[t] \in {"idle", "build"}
    /\ multiThread \/ t = MainThread

CallFrame == UNCHANGED <<multiThread, currentPool, tCurrentPool, pc, idx, gpu, prevFrame,
                         links, budget, lightVars>>

\* the call returns without touching a pool
Return == UNCHANGED <<objects, status, log, failed, calls>>

\* getCurrentPool()-> on a null current pool
NullDeref == failed' = TRUE /\ UNCHANGED <<objects, status, log, calls>>

\* the guard left out
OffThread_NoGuard(t) == FALSE

\* if(multiThreadEnabled() && !isOnThread()) return;
OffThread(t) == multiThread /\ ~isOnThread(t)

\* the test without its source rect
RejectTexturedRect_NoSrc(dest, texture, src) == dest = EmptyRect \/ isEmpty(texture)

\* if(dest.isEmpty() || src.isEmpty() || texture->isEmpty()) return;
RejectTexturedRect(dest, texture, src) ==
    dest = EmptyRect \/ src = EmptyRect \/ isEmpty(texture)

(***************************************************************************)
(* add(texture, method, drawMode) on the caller's current pool             *)
(* (lines 98-135).                                                         *)
(***************************************************************************)
add(t, ps, texture, method, drawMode) ==
    LET p == getCurrentPool(t) IN
    IF p = NoPool THEN NullDeref
    ELSE /\ status' = IF isFramed(p)
                      THEN [status EXCEPT ![p] = updateHash(@, texture, method)]
                      ELSE status
         /\ objects' = [objects EXCEPT ![p] = AddToList(@, ps, texture, method, drawMode)]
         /\ log' = [log EXCEPT ![p] =
                        Append(@, Entry("add", RenderState(ps, texture), method, drawMode))]
         /\ calls < budget.calls /\ calls' = calls + 1
         /\ UNCHANGED failed

(***************************************************************************)
(* addRepeated(texture, method, drawMode) (lines 84-96): no updateHash.    *)
(***************************************************************************)
addRepeated(t, ps, texture, method, drawMode) ==
    LET p == getCurrentPool(t) IN
    IF p = NoPool THEN NullDeref
    ELSE /\ objects' = [objects EXCEPT ![p] = AddRepeatedToList(@, ps, texture, method, drawMode)]
         /\ log' = [log EXCEPT ![p] =
                        Append(@, Entry("addRepeated", RenderState(ps, texture), method, drawMode))]
         /\ calls < budget.calls /\ calls' = calls + 1
         /\ UNCHANGED <<status, failed>>

\* m_objects.push_back(object) of addFillCoords, addTextureCoords and addAction
PushObject(p, op, obj) ==
    /\ objects' = [objects EXCEPT ![p] = Append(@, obj)]
    /\ log' = [log EXCEPT ![p] =
                   Append(@, Entry(op, obj.state,
                                   IF obj.drawMethods = <<>> THEN DrawMethod("none")
                                   ELSE obj.drawMethods[1], obj.drawMode))]
    /\ calls < budget.calls /\ calls' = calls + 1
    /\ UNCHANGED failed

(***************************************************************************)
(* The add-primitive calls (lines 232-374).                                *)
(***************************************************************************)
addTexturedRect(t, ps, dest, texture, src, originalDest) ==
    /\ CanCall(t) /\ CallFrame
    /\ last' = Call(t, BadTexturedRect(dest, texture, src))
    /\ IF OffThread(t) THEN Return
       ELSE IF RejectTexturedRect(dest, texture, src) THEN Return
       ELSE add(t, ps, texture,
                [DrawMethod("DRAW_TEXTURED_RECT") EXCEPT !.rects = <<dest, src>>,
                                                         !.dest = originalDest],
                "TriangleStrip")

\* the overload without a source rect (lines 271-274)
addTexturedRect2(t, ps, dest, texture) ==
    addTexturedRect(t, ps, dest, texture, TextureRect(texture), NullPoint)

addUpsideDownTexturedRect(t, ps, dest, texture, src) ==
    /\ CanCall(t) /\ CallFrame
    /\ last' = Call(t, BadTexturedRect(dest, texture, src))
    /\ IF OffThread(t) THEN Return
       ELSE IF RejectTexturedRect(dest, texture, src) THEN Return
       ELSE add(t, ps, texture,
                [DrawMethod("DRAW_UPSIDEDOWN_TEXTURED_RECT") EXCEPT !.rects = <<dest, src>>],
                "TriangleStrip")

addRepeatedTexturedRect(t, ps, dest, texture, src) ==
    /\ CanCall(t) /\ CallFrame
    /\ last' = Call(t, BadTexturedRect(dest, texture, src))
    /\ IF OffThread(t) THEN Return
       ELSE IF RejectTexturedRect(dest, texture, src) THEN Return
       ELSE addRepeated(t, ps, texture,
                [DrawMethod("DRAW_REPEATED_TEXTURED_RECT") EXCEPT !.rects = <<dest, src>>],
                DefaultDrawMode)

\* the overload without a source rect (lines 303-307)
addRepeatedTexturedRect2(t, ps, dest, texture) ==
    addRepeatedTexturedRect(t, ps, dest, texture, TextureRect(texture))

addRepeatedFilledRect(t, ps, dest) ==
    /\ CanCall(t) /\ CallFrame
    /\ last' = Call(t, BadRect(dest))
    /\ IF OffThread(t) THEN Return
       ELSE IF dest = EmptyRect THEN Return
       ELSE addRepeated(t, ps, NoTexture,
                [DrawMethod("DRAW_REPEATED_FILLED_RECT") EXCEPT !.rects = <<dest, EmptyRect>>],
                DefaultDrawMode)

addFilledRect(t, ps, dest) ==
    /\ CanCall(t) /\ CallFrame
    /\ last' = Call(t, BadRect(dest))
    /\ IF OffThread(t) THEN Return
       ELSE IF dest = EmptyRect THEN Return
       ELSE add(t, ps, NoTexture,
                [DrawMethod("DRAW_FILLED_RECT") EXCEPT !.rects = <<dest, EmptyRect>>],
                DefaultDrawMode)

addFilledTriangle(t, ps, a, b, c) ==
    /\ CanCall(t) /\ CallFrame
    /\ last' = Call(t, BadTriangle(a, b, c))
    /\ IF OffThread(t) THEN Return
       ELSE IF a = b \/ a = c \/ b = c THEN Return
       ELSE add(t, ps, NoTexture,
                [DrawMethod("DRAW_FILLED_TRIANGLE") EXCEPT !.points = <<a, b, c>>],
                DefaultDrawMode)

addBoundingRect(t, ps, dest, innerLineWidth) ==
    /\ CanCall(t) /\ CallFrame
    /\ last' = Call(t, BadBoundingRect(dest, innerLineWidth))
    /\ IF OffThread(t) THEN Return
       ELSE IF dest = EmptyRect \/ innerLineWidth = 0 THEN Return
       ELSE add(t, ps, NoTexture,
                [DrawMethod("DRAW_BOUNDING_RECT") EXCEPT !.rects = <<dest, EmptyRect>>,
                                                         !.intValue = innerLineWidth],
                DefaultDrawMode)

\* coordsBuffer stands for the caller's buffer; its vertex hash is its identity
addFillCoords(t, ps, coordsBuffer) ==
    /\ CanCall(t) /\ CallFrame
    /\ last' = Call(t, FALSE)
    /\ IF OffThread(t) THEN Return
       ELSE LET method == [DrawMethod("DRAW_FILL_COORDS") EXCEPT !.intValue = coordsBuffer]
                action == DrawObject(RenderState(ps, NoTexture), CallerBuffer(coordsBuffer),
                                     "Triangles", <<method>>, NoAction)
                p == getCurrentPool(t)
            IN IF p = NoPool THEN NullDeref
               ELSE /\ status' = IF isFramed(p)
                                 THEN [status EXCEPT ![p] = updateHash(@, NoTexture, method)]
                                 ELSE status
                    /\ PushObject(p, "addFillCoords", action)

addTextureCoords(t, ps, coordsBuffer, texture, drawMode) ==
    /\ CanCall(t) /\ CallFrame
    /\ last' = Call(t, BadTexture(texture))
    /\ IF OffThread(t) THEN Return
       ELSE IF texture # NoTexture /\ isEmpty(texture) THEN Return
       ELSE LET method == [DrawMethod("DRAW_TEXTURE_COORDS") EXCEPT !.intValue = coordsBuffer]
                action == DrawObject(RenderState(ps, texture), CallerBuffer(coordsBuffer),
                                     drawMode, <<method>>, NoAction)
                p == getCurrentPool(t)
            IN IF p = NoPool THEN NullDeref
               ELSE /\ status' = IF isFramed(p)
                                 THEN [status EXCEPT ![p] = updateHash(@, texture, method)]
                                 ELSE status
                    /\ PushObject(p, "addTextureCoords", action)

\* action stands for the closure; no updateHash (lines 370-374)
addAction(t, action) ==
    /\ CanCall(t) /\ CallFrame
    /\ last' = Call(t, FALSE)
    /\ IF OffThread(t) THEN Return
       ELSE LET p == getCurrentPool(t)
            IN IF p = NoPool THEN NullDeref
               ELSE /\ PushObject(p, "addAction",
                                  DrawObject(DefaultState, NoBuffer, "None", <<>>, action))
                    /\ UNCHANGED status

(***************************************************************************)
(* The action link(pool, f) binds (lines 47-61), in two steps: up to the   *)
(* call of f, and from f's return.  The calls f makes are the add-         *)
(* primitive calls of the same thread in between.  In multithreaded mode   *)
(* the pool's worker runs it, started by the owning thread outside draw(); *)
(* otherwise the owning thread runs it.                                    *)
(***************************************************************************)
actionBegin(t, pool) ==
    /\ ~failed
    /\ pc[MainThread] = "idle" /\ pc[t] = "idle"
    /\ t = IF multiThread THEN pool ELSE MainThread
    /\ IF multiThread
       THEN tCurrentPool' = [tCurrentPool EXCEPT ![t] = pool] /\ UNCHANGED currentPool
       ELSE currentPool' = pool /\ UNCHANGED tCurrentPool
    /\ status' = IF isFramed(pool) THEN [status EXCEPT ![pool] = resetCurrentStatus(@)]
                 ELSE status
    /\ pc' = [pc EXCEPT ![t] = "build"]
    /\ log' = [log EXCEPT ![pool] = Append(@, LinkEntry)]
    /\ gpu' = <<>>
    /\ links < budget.links /\ links' = links + 1
    /\ last' = LinkStep(t, ~multiThread)
    /\ UNCHANGED <<multiThread, objects, idx, failed, prevFrame, calls, budget, lightVars>>

actionEnd_SlotKept(t) ==
    /\ ~failed
    /\ pc[t] = "build"
    /\ LET pool == getCurrentPool(t) IN
       IF isOnThread(t)
       THEN objects' = [objects EXCEPT ![pool] = CacheAll(@)] /\ UNCHANGED gpu
       ELSE gpu' = gpu \o SubmitAll(objects[pool]) /\ UNCHANGED objects
    /\ pc' = [pc EXCEPT ![t] = "idle"]
    /\ last' = LinkStep(t, FALSE)
    /\ UNCHANGED <<multiThread, currentPool, tCurrentPool, status, idx, failed, log,
                   prevFrame, calls, links, budget, lightVars>>

actionEnd(t) ==
    /\ ~failed
    /\ pc[t] = "build"
    /\ LET pool == getCurrentPool(t) IN
       \* for(auto& obj : list) drawObject(*obj);
       IF isOnThread(t)
       THEN objects' = [objects EXCEPT ![pool] = CacheAll(@)] /\ UNCHANGED gpu
       ELSE gpu' = gpu \o SubmitAll(objects[pool]) /\ UNCHANGED objects
    /\ currentPool' = NoPool
    /\ tCurrentPool' = [tCurrentPool EXCEPT ![t] = NoPool]
    /\ pc' = [pc EXCEPT ![t] = "idle"]
    /\ last' = LinkStep(t, TRUE)
    /\ UNCHANGED <<multiThread, status, idx, failed, log, prevFrame, calls, links, budget,
                   lightVars>>

(***************************************************************************)
(* Pool::join(): returns once the pool's population task has completed.    *)
(***************************************************************************)
join(pool) == pc[pool] = "idle"

(***************************************************************************)
(* draw() (lines 137-176) on the owning thread: entry, one step per pool   *)
(* of the join loop, one step per pool of the replay loop.                 *)
(***************************************************************************)
drawBegin ==
    /\ ~failed
    /\ pc[MainThread] = "idle"
    /\ pc' = [pc EXCEPT ![MainThread] = IF multiThread THEN "join" ELSE "draw"]
    /\ idx' = 1
    /\ gpu' = <<>>
    /\ last' = NoCall
    /\ UNCHANGED <<multiThread, currentPool, tCurrentPool, objects, status, failed, log,
                   prevFrame, calls, links, budget, lightVars>>

\* the join loop walked without waiting
drawJoin_NoJoin ==
    /\ pc[MainThread] = "join"
    /\ IF idx < Len(PoolTypes)
       THEN idx' = idx + 1 /\ UNCHANGED pc
       ELSE idx' = 1 /\ pc' = [pc EXCEPT ![MainThread] = "draw"]
    /\ last' = NoCall
    /\ UNCHANGED <<multiThread, currentPool, tCurrentPool, objects, status, failed, gpu,
                   log, prevFrame, calls, links, budget, lightVars>>

drawJoin ==
    /\ pc[MainThread] = "join"
    /\ join(PoolTypes[idx])
    /\ IF idx < Len(PoolTypes)
       THEN idx' = idx + 1 /\ UNCHANGED pc
       ELSE idx' = 1 /\ pc' = [pc EXCEPT ![MainThread] = "draw"]
    /\ last' = NoCall
    /\ UNCHANGED <<multiThread, currentPool, tCurrentPool, objects, status, failed, gpu,
                   log, prevFrame, calls, links, budget, lightVars>>

\* the target re-rendered whenever it is drawable
Redraw_Always(pool, drawable) == isFramed(pool) /\ drawable

\* if(pool->isFramed()) ... if(frameBuffer->isDrawable()) ... if(pf->hasModification())
Redraw(pool, drawable) == isFramed(pool) /\ drawable /\ hasModification(status[pool])

\* the list cleared only on the paths that replayed it
PoolAfterDraw_ReplayedOnly(pool, drawable) ==
    IF isFramed(pool) /\ ~drawable THEN objects[pool] ELSE <<>>

\* pool->m_objects.clear() at the end of the iteration (lines 171, 174)
PoolAfterDraw(pool, drawable) == <<>>

\* what one iteration of the replay loop sends to the painter and the target
PoolOutput(pool, drawable, redraw, hasBefore, hasAfter) ==
    IF isFramed(pool)
    THEN IF drawable
         THEN <<<<"saveAndResetState">>>>
              \o (IF redraw
                  THEN <<<<"bind", pool>>>> \o SubmitAll(objects[pool]) \o <<<<"release", pool>>>>
                  ELSE <<>>)
              \o (IF hasBefore THEN <<<<"beforeDraw", pool>>>> ELSE <<>>)
              \o <<<<"frameBufferDraw", pool>>>>
              \o (IF hasAfter THEN <<<<"afterDraw", pool>>>> ELSE <<>>)
              \o <<<<"restoreSavedState">>>>
         ELSE <<>>
    ELSE SubmitAll(objects[pool])

\* drawable: frameBuffer->isDrawable(); hasBefore, hasAfter: the hooks are set;
\* track: the history prevFrame is kept
drawPool(drawable, hasBefore, hasAfter, track) ==
    /\ pc[MainThread] = "draw"
    /\ LET pool == PoolTypes[idx]
           redraw == Redraw(pool, drawable)
       IN /\ status' = IF redraw THEN [status EXCEPT ![pool] = updateStatus(@)] ELSE status
          /\ gpu' = gpu \o PoolOutput(pool, drawable, redraw, hasBefore, hasAfter)
          /\ objects' = [objects EXCEPT ![pool] = PoolAfterDraw(pool, drawable)]
          /\ log' = [log EXCEPT ![pool] = <<>>]
          /\ prevFrame' = IF track /\ isFramed(pool)
                          THEN [prevFrame EXCEPT ![pool] =
                                   [drawn |-> TRUE, log |-> log[pool],
                                    drawable |-> drawable,
                                    modified |-> hasModification(status[pool]),
                                    rendered |-> redraw,
                                    first |-> ~prevFrame[pool].drawn,
                                    afterDrawable |-> prevFrame[pool].drawn
                                                      /\ prevFrame[pool].drawable,
                                    repeats |-> prevFrame[pool].drawn
                                                /\ prevFrame[pool].log = log[pool]]]
                          ELSE prevFrame
          /\ last' = IF idx < Len(PoolTypes) THEN NoCall ELSE DrawReturned
    /\ IF idx < Len(PoolTypes)
       THEN idx' = idx + 1 /\ UNCHANGED pc
       ELSE idx' = 0 /\ pc' = [pc EXCEPT ![MainThread] = "idle"]
    /\ UNCHANGED <<multiThread, currentPool, tCurrentPool, failed, calls, links, budget,
                   lightVars>>

(***************************************************************************)
(* LightView (src/src/client/lightview.cpp).  Opacities are counted in     *)
(* sixths, so that min(opacity, intensity / 6.f) is a minimum of integers. *)
(***************************************************************************)
m_tileSize == 32
LightType == "LIGHT"
m_globalLightColor == "globalLightColor"

LightSource(pos, color, intensity, opacity) ==
    [pos |-> pos, color |-> color, intensity |-> intensity, opacity |-> opacity]

\* the new value taken
Max_KeepNew(a, b) == b

Max(a, b) == IF a >= b THEN a ELSE b
Min(a, b) == IF a <= b THEN a ELSE b

\* LightView::addLightSource(pos, light); opacity is g_drawPool.getOpacity()
addLightSource(pos, color, intensity, opacity) ==
    /\ IF ~dark THEN UNCHANGED sources
       ELSE IF /\ sources # <<>>
               /\ sources[Len(sources)].pos = pos
               /\ sources[Len(sources)].color = color
       THEN sources' = [sources EXCEPT ![Len(sources)].intensity = Max(@, intensity)]
       ELSE /\ Len(sources) < MaxSources
            /\ sources' = Append(sources, LightSource(pos, color, intensity, opacity))
    /\ lightOut' = <<>>
    /\ lightOp' = [op |-> "addLightSource",
                   light |-> IF dark THEN <<LightSource(pos, color, intensity, opacity)>>
                             ELSE <<>>]
    /\ UNCHANGED <<dark, enabled, poolVars>>

\* the loop with a flush before every shadow overlay
RECURSIVE LightPass_FlushEvery(_, _)
LightPass_FlushEvery(srcs, clr) ==
    IF srcs = <<>> THEN <<>>
    ELSE LET light == Head(srcs) IN
         IF light.color # 0
         THEN <<<<"addTexturedRect",
                  [pos |-> light.pos, radius |-> light.intensity * m_tileSize],
                  "lightTexture",
                  <<"from8bit", light.color, Min(light.opacity, light.intensity)>>>>,
                <<"setBlendEquation", "MAX">>>>
              \o LightPass_FlushEvery(Tail(srcs), TRUE)
         ELSE <<<<"flush">>,
                <<"setOpacity", light.opacity>>,
                <<"addTexturedRect", [pos |-> light.pos, radius |-> 0], "shadeTexture",
                  m_globalLightColor>>,
                <<"resetOpacity">>>>
              \o LightPass_FlushEvery(Tail(srcs), TRUE)

\* the loop of LightView::draw over m_sources (lines 60-76)
RECURSIVE LightPass(_, _)
LightPass(srcs, clr) ==
    IF srcs = <<>> THEN <<>>
    ELSE LET light == Head(srcs) IN
         IF light.color # 0
         THEN <<<<"addTexturedRect",
                  [pos |-> light.pos, radius |-> light.intensity * m_tileSize],
                  "lightTexture",
                  <<"from8bit", light.color, Min(light.opacity, light.intensity)>>>>,
                <<"setBlendEquation", "MAX">>>>
              \o LightPass(Tail(srcs), TRUE)
         ELSE (IF clr THEN <<<<"flush">>>> ELSE <<>>)
              \o <<<<"setOpacity", light.opacity>>,
                    <<"addTexturedRect", [pos |-> light.pos, radius |-> 0], "shadeTexture",
                      m_globalLightColor>>,
                    <<"resetOpacity">>>>
              \o LightPass(Tail(srcs), FALSE)

\* the pass run without the darkness test
lightDraw_AlwaysPass ==
    /\ enabled' = dark
    /\ lightOut' = <<<<"use", LightType, m_globalLightColor>>>> \o LightPass(sources, TRUE)
    /\ sources' = <<>>
    /\ lightOp' = [op |-> "draw", light |-> <<>>]
    /\ UNCHANGED <<dark, poolVars>>

\* LightView::draw(dest, src) (lines 50-79)
lightDraw ==
    /\ enabled' = dark
    /\ IF ~dark THEN lightOut' = <<>> /\ UNCHANGED sources
       ELSE /\ lightOut' = <<<<"use", LightType, m_globalLightColor>>>> \o LightPass(sources, TRUE)
            /\ sources' = <<>>
    /\ lightOp' = [op |-> "draw", light |-> <<>>]
    /\ UNCHANGED <<dark, poolVars>>

\* the global light changes: the scene becomes dark or stops being dark
setGlobalLight(d) ==
    /\ dark' = d
    /\ lightOut' = <<>>
    /\ lightOp' = [op |-> "setGlobalLight", light |-> <<>>]
    /\ UNCHANGED <<sources, enabled, poolVars>>

(***************************************************************************)
(* The calls the environment makes, over the inputs of an alphabet A.      *)
(***************************************************************************)
TexturedRects(A) ==
    \E t \in A.threads, ps \in A.paints, dest \in A.rects, texture \in A.textures,
       src \in A.srcs, originalDest \in A.dests :
        addTexturedRect(t, ps, dest, texture, src, originalDest)
TexturedRects2(A) ==
    \E t \in A.threads, ps \in A.paints, dest \in A.rects, texture \in A.textures :
        addTexturedRect2(t, ps, dest, texture)
UpsideDownTexturedRects(A) ==
    \E t \in A.threads, ps \in A.paints, dest \in A.rects, texture \in A.textures,
       src \in A.srcs :
        addUpsideDownTexturedRect(t, ps, dest, texture, src)
RepeatedTexturedRects(A) ==
    \E t \in A.threads, ps \in A.paints, dest \in A.rects, texture \in A.textures,
       src \in A.srcs :
        addRepeatedTexturedRect(t, ps, dest, texture, src)
RepeatedTexturedRects2(A) ==
    \E t \in A.threads, ps \in A.paints, dest \in A.rects, texture \in A.textures :
        addRepeatedTexturedRect2(t, ps, dest, texture)
RepeatedFilledRects(A) ==
    \E t \in A.threads, ps \in A.paints, dest \in A.rects : addRepeatedFilledRect(t, ps, dest)
FilledRects(A) ==
    \E t \in A.threads, ps \in A.paints, dest \in A.rects : addFilledRect(t, ps, dest)
FilledTriangles(A) ==
    \E t \in A.threads, ps \in A.paints, abc \in A.triangles :
        addFilledTriangle(t, ps, abc[1], abc[2], abc[3])
BoundingRects(A) ==
    \E t \in A.threads, ps \in A.paints, dest \in A.rects, innerLineWidth \in A.widths :
        addBoundingRect(t, ps, dest, innerLineWidth)
FillCoords(A) ==
    \E t \in A.threads, ps \in A.paints, coordsBuffer \in A.buffers :
        addFillCoords(t, ps, coordsBuffer)
TextureCoords(A) ==
    \E t \in A.threads, ps \in A.paints, coordsBuffer \in A.buffers,
       texture \in A.textures \cup {NoTexture}, drawMode \in A.modes :
        addTextureCoords(t, ps, coordsBuffer, texture, drawMode)
Actions(A) ==
    \E t \in A.threads, action \in A.actions : addAction(t, action)

ActionBegins == \E t \in Threads, pool \in Pools : actionBegin(t, pool)
ActionEnds == \E t \in Threads : actionEnd(t)

DrawPools(track) ==
    \E drawable \in BOOLEAN, hasBefore \in BOOLEAN, hasAfter \in BOOLEAN :
        drawPool(drawable, hasBefore, hasAfter, track)

(***************************************************************************)
(* Spec: the registry in the default single-threaded mode; every call,     *)
(* with well-formed and malformed inputs.                                  *)
(***************************************************************************)
Alphabet ==
    [threads |-> {MainThread}, paints |-> {0}, rects |-> {EmptyRect, 1},
     srcs |-> {EmptyRect, 1}, textures |-> {"tile", "empty"}, dests |-> {NullPoint},
     triangles |-> {<<1, 2, 3>>, <<1, 1, 2>>, <<1, 2, 1>>, <<2, 1, 1>>},
     widths |-> {0, 1}, buffers |-> {1}, modes |-> {"Triangles"}, actions |-> {1}]

Populate(A) ==
    \/ TexturedRects(A)
    \/ TexturedRects2(A)
    \/ UpsideDownTexturedRects(A)
    \/ RepeatedTexturedRects(A)
    \/ RepeatedTexturedRects2(A)
    \/ RepeatedFilledRects(A)
    \/ FilledRects(A)
    \/ FilledTriangles(A)
    \/ BoundingRects(A)
    \/ FillCoords(A)
    \/ TextureCoords(A)
    \/ Actions(A)

Init == InitWith(FALSE, MaxCalls, MaxLinks)

Next ==
    \/ Populate(Alphabet)
    \/ ActionBegins
    \/ ActionEnds
    \/ drawBegin
    \/ DrawPools(FALSE)

Spec == Init /\ [][Next]_vars

(***************************************************************************)
(* SpecMT: the registry in multithreaded mode; every call, from the owning *)
(* thread and from both workers, interleaved with draw().                  *)
(***************************************************************************)
AlphabetMT ==
    [threads |-> Threads, paints |-> {0}, rects |-> {1}, srcs |-> {1},
     textures |-> {"tile"}, dests |-> {NullPoint}, triangles |-> {<<1, 2, 3>>},
     widths |-> {1}, buffers |-> {1}, modes |-> {"Triangles"}, actions |-> {1}]

InitMT == InitWith(TRUE, MaxCalls, MaxLinks)

NextMT ==
    \/ Populate(AlphabetMT)
    \/ ActionBegins
    \/ ActionEnds
    \/ drawBegin
    \/ drawJoin
    \/ DrawPools(FALSE)

SpecMT == InitMT /\ [][NextMT]_vars

(***************************************************************************)
(* SpecAdd: one linked action, single-threaded, populating one pool        *)
(* through add(): textured rects over textures, source rects and explicit  *)
(* destinations, and filled rects.                                         *)
(***************************************************************************)
AlphabetAdd ==
    [threads |-> {MainThread}, paints |-> {0}, rects |-> {1}, srcs |-> {1, 2},
     textures |-> {"tile", "glass", "wall"}, dests |-> {NullPoint, 1}]

InitAdd == InitWith(FALSE, MaxAdds, 1)

NextAdd ==
    \/ TexturedRects(AlphabetAdd)
    \/ FilledRects(AlphabetAdd)
    \/ ActionBegins
    \/ ActionEnds

SpecAdd == InitAdd /\ [][NextAdd]_vars

(***************************************************************************)
(* SpecFrames: several frames, single-threaded, with the history of the    *)
(* framed pool's draws kept: textured rects and repeated filled rects.     *)
(***************************************************************************)
AlphabetFrames ==
    [threads |-> {MainThread}, paints |-> {0}, rects |-> {1}, srcs |-> {1},
     textures |-> {"tile"}, dests |-> {NullPoint}]

InitFrames == InitWith(FALSE, MaxFrameCalls, MaxFrameLinks)

NextFrames ==
    \/ TexturedRects(AlphabetFrames)
    \/ RepeatedFilledRects(AlphabetFrames)
    \/ ActionBegins
    \/ ActionEnds
    \/ drawBegin
    \/ DrawPools(TRUE)

SpecFrames == InitFrames /\ [][NextFrames]_vars

(***************************************************************************)
(* SpecReplay: multithreaded, both pools populated by their workers in any *)
(* interleaving, then replayed: objects with a caller buffer, filled rects  *)
(* and deferred actions.                                                   *)
(***************************************************************************)
AlphabetReplay ==
    [threads |-> Pools, paints |-> {0}, rects |-> {1}, buffers |-> {1}, actions |-> {1}]

InitReplay == InitWith(TRUE, MaxReplayCalls, MaxReplayLinks)

NextReplay ==
    \/ FillCoords(AlphabetReplay)
    \/ FilledRects(AlphabetReplay)
    \/ Actions(AlphabetReplay)
    \/ ActionBegins
    \/ ActionEnds
    \/ drawBegin
    \/ drawJoin
    \/ DrawPools(FALSE)

SpecReplay == InitReplay /\ [][NextReplay]_vars

(***************************************************************************)
(* SpecLink: the linked actions in either mode, the mode chosen at         *)
(* startup: filled rects, textured rects and deferred actions from every   *)
(* thread, interleaved with draw().                                        *)
(***************************************************************************)
AlphabetRepeat ==
    [threads |-> {MainThread}, paints |-> {0}, rects |-> {1, 2}, srcs |-> {1},
     textures |-> {"tile", "glass"}, dests |-> {NullPoint}]

InitRepeat == InitWith(FALSE, MaxRepeatCalls, 1)

NextRepeat ==
    \/ RepeatedTexturedRects(AlphabetRepeat)
    \/ RepeatedFilledRects(AlphabetRepeat)
    \/ TexturedRects(AlphabetRepeat)
    \/ FilledRects(AlphabetRepeat)
    \/ ActionBegins
    \/ ActionEnds

SpecRepeat == InitRepeat /\ [][NextRepeat]_vars

(***************************************************************************)
(* SpecLink: the action link() binds, with and without multithreading.     *)
(***************************************************************************)
AlphabetLink ==
    [threads |-> Threads, paints |-> {0}, rects |-> {1}, srcs |-> {1},
     textures |-> {"tile"}, dests |-> {NullPoint}, actions |-> {1}]

InitLink ==
    /\ multiThread \in BOOLEAN
    /\ budget = [calls |-> MaxCalls, links |-> MaxLinks]
    /\ InitCommon

NextLink ==
    \/ FilledRects(AlphabetLink)
    \/ TexturedRects(AlphabetLink)
    \/ Actions(AlphabetLink)
    \/ ActionBegins
    \/ ActionEnds
    \/ drawBegin
    \/ drawJoin
    \/ DrawPools(FALSE)

SpecLink == InitLink /\ [][NextLink]_vars

(***************************************************************************)
(* SpecLight: the light view alone: sources at two positions, colored and  *)
(* shadow markers, two intensities, two opacities; the global light        *)
(* changing at any time.                                                   *)
(***************************************************************************)
LightPositions == {0, 1}
LightColors == {0, 5}
LightIntensities == {3, 7}
Opacities == {3, 6}

InitLight ==
    /\ multiThread = FALSE
    /\ budget = [calls |-> 0, links |-> 0]
    /\ InitPools
    /\ InitLightView
    /\ dark \in BOOLEAN
    /\ enabled \in BOOLEAN

AddLightSources ==
    \E pos \in LightPositions, color \in LightColors, intensity \in LightIntensities,
       opacity \in Opacities :
        addLightSource(pos, color, intensity, opacity)

SetGlobalLights == \E d \in BOOLEAN : setGlobalLight(d)

NextLight ==
    \/ AddLightSources
    \/ lightDraw
    \/ SetGlobalLights

SpecLight == InitLight /\ [][NextLight]_vars

(***************************************************************************)
(* Properties of add() (SpecAdd).                                          *)
(***************************************************************************)
\* the add() calls a pool has accepted, in call order
Adds(p) == SelectSeq(log[p], LAMBDA e : e.op = "add")
SameState(a) == \A i, j \in 1..Len(a) : a[i].state = a[j].state

\* the elements of s at the indices in S, in order
Pick(s, S) ==
    LET F[i \in 0..Len(s)] ==
            IF i = 0 THEN <<>> ELSE IF i \in S THEN Append(F[i - 1], s[i]) ELSE F[i - 1]
    IN F[Len(s)]

\* one state per maximal run of equal consecutive states
RECURSIVE Runs(_)
Runs(states) ==
    IF Len(states) <= 1 THEN states
    ELSE IF states[1] = states[2] THEN Runs(Tail(states))
    ELSE <<states[1]>> \o Runs(Tail(states))

\* C1, as stated: after add calls that all carry the same RenderState the pool
\* holds exactly one DrawObject, with all the added methods in insertion order,
\* of triangle-list topology once a second add has happened.
C1_AllMethodsKept ==
    \A p \in Pools :
        LET a == Adds(p) IN
        a # <<>> /\ SameState(a) =>
            /\ Len(objects[p]) = 1
            /\ objects[p][1].drawMethods = [i \in 1..Len(a) |-> a[i].method]
            /\ objects[p][1].drawMode = IF Len(a) >= 2 THEN "Triangles" ELSE a[1].drawMode

\* C1, amended: after add calls that all carry the same RenderState the pool
\* holds exactly one DrawObject of that state; its methods are the added methods
\* in insertion order, less only methods followed by a later add with the same
\* non-null explicit destination; its topology is triangle-list once a second
\* add has happened, and the topology given with the first add until then.
C1_OneObjectLessPruned ==
    \A p \in Pools :
        LET a == Adds(p) IN
        a # <<>> /\ SameState(a) =>
            /\ Len(objects[p]) = 1
            /\ objects[p][1].state = a[1].state
            /\ \E S \in SUBSET (1..Len(a)) :
                /\ objects[p][1].drawMethods = Pick([i \in 1..Len(a) |-> a[i].method], S)
                /\ \A i \in (1..Len(a)) \ S :
                    /\ a[i].method.dest # NullPoint
                    /\ \E j \in (i + 1)..Len(a) : a[j].method.dest = a[i].method.dest
            /\ objects[p][1].drawMode = IF Len(a) >= 2 THEN "Triangles" ELSE a[1].drawMode

\* three adds of one state, one of them pruned, one with a null destination kept
C1_Witness ==
    \E p \in Pools :
        LET a == Adds(p) IN
        /\ Len(a) = 3 /\ SameState(a)
        /\ Len(objects[p]) = 1 /\ Len(objects[p][1].drawMethods) = 2
        /\ \E i \in 1..2 : objects[p][1].drawMethods[i].dest = NullPoint

\* C2: the states of a pool's DrawObjects, in order, are the states of the
\* maximal runs of consecutive add calls with equal RenderState: one DrawObject
\* per run, none merged into an earlier object.
C2_OneObjectPerRun ==
    \A p \in Pools :
        LET a == Adds(p) IN
        [i \in 1..Len(objects[p]) |-> objects[p][i].state]
            = Runs([i \in 1..Len(a) |-> a[i].state])

\* a state, another state, the first state again: three DrawObjects
C2_Witness ==
    \E p \in Pools :
        /\ Len(objects[p]) = 3
        /\ objects[p][1].state = objects[p][3].state
        /\ objects[p][1].state # objects[p][2].state

\* every method a pool holds, in insertion order, with its DrawObject's texture
Held(p) ==
    Flatten([i \in 1..Len(objects[p]) |->
                [k \in 1..Len(objects[p][i].drawMethods) |->
                    [texture |-> objects[p][i].state.texture,
                     dest |-> objects[p][i].drawMethods[k].dest]]])

\* C3, as stated: a pool never holds two primitives at one non-null explicit
\* destination of which the earlier has a superimposable texture and the later
\* an opaque one.
C3_NeverBoth ==
    \A p \in Pools :
        LET h == Held(p) IN
        \A i, j \in 1..Len(h) :
            i < j /\ h[i].dest # NullPoint /\ h[i].dest = h[j].dest
                => ~(canSuperimposed(h[i].texture) /\ isOpaque(h[j].texture))

\* the methods of obj with destination dest
AtDest(obj, dest) == {i \in 1..Len(obj.drawMethods) : obj.drawMethods[i].dest = dest}

\* C3, amended: when add receives a primitive with a non-null explicit
\* destination D and an opaque texture, and the pool's last DrawObject has a
\* superimposable texture and holds methods at D, the first of those methods is
\* removed before the new one is appended; the other methods of the last
\* DrawObject and all earlier DrawObjects stay as they were.
C3_FirstInLastObjectRemoved ==
    [][\A p \in Pools :
        LET e == log'[p][Len(log'[p])]
            n == Len(objects[p])
            prevObj == objects[p][n]
            hits == AtDest(prevObj, e.method.dest)
            first == CHOOSE i \in hits : \A j \in hits : i <= j
            kept == RemoveAt(prevObj.drawMethods, first)
        IN  /\ Len(log'[p]) = Len(log[p]) + 1 /\ e.op = "add"
            /\ e.method.dest # NullPoint /\ isOpaque(e.state.texture)
            /\ n > 0 /\ canSuperimposed(prevObj.state.texture) /\ hits # {}
            => /\ \A i \in 1..(n - 1) : objects'[p][i] = objects[p][i]
               /\ IF prevObj.state = e.state
                  THEN /\ Len(objects'[p]) = n
                       /\ objects'[p][n].drawMethods = Append(kept, e.method)
                  ELSE /\ Len(objects'[p]) = n + 1
                       /\ objects'[p][n].drawMethods = kept
                       /\ objects'[p][n + 1].drawMethods = <<e.method>>
      ]_vars

\* an opaque primitive added over a superimposable one of another state: the
\* earlier DrawObject is left without methods
C3_Witness ==
    \E p \in Pools :
        /\ Len(objects[p]) = 2
        /\ objects[p][1].drawMethods = <<>>
        /\ objects[p][1].state.texture = "glass"
        /\ isOpaque(objects[p][2].state.texture)
        /\ objects[p][2].drawMethods[1].dest # NullPoint

(***************************************************************************)
(* Properties of the framed pool's cache across frames (SpecFrames).       *)
(***************************************************************************)
\* the calls of a frame populated by one run of the linked action, with primitives
OneAction(l) ==
    /\ Len(l) >= 2
    /\ l[1] = LinkEntry
    /\ \A i \in 2..Len(l) : l[i].op # "link"

\* the painter and target calls of a composite of the cached target alone
CompositeOnly(pool) ==
    {<<<<"saveAndResetState">>>> \o before \o <<<<"frameBufferDraw", pool>>>> \o after
        \o <<<<"restoreSavedState">>>> :
        before \in {<<>>, <<<<"beforeDraw", pool>>>>},
        after \in {<<>>, <<<<"afterDraw", pool>>>>}}

\* draw() has just finished the iteration of the framed pool, the first of m_pools
FramedPoolDrawn == pc[MainThread] = "draw" /\ idx = 2 /\ prevFrame["MAP"].drawn

\* C4: when the framed pool is populated by its linked action and drawn with a
\* drawable target, the first frame re-renders the target, and a frame that
\* repeats exactly the calls of the frame before it does not.
C4_RenderThenCacheHit ==
    LET F == prevFrame["MAP"] IN
    F.drawn /\ F.drawable /\ OneAction(F.log) =>
        /\ F.first => F.rendered
        /\ F.repeats /\ F.afterDrawable => ~F.rendered

\* C5, as stated: the target is re-rendered only when it is drawable and the hash
\* differs from the snapshot; when no primitives were added since the last
\* draw(), it is not re-rendered and, if drawable, only composited.
C5_NoPrimitivesNoRender ==
    LET F == prevFrame["MAP"] IN
    F.drawn =>
        /\ F.rendered => F.drawable /\ F.modified
        /\ (\A i \in 1..Len(F.log) : F.log[i].op = "link") =>
            /\ ~F.rendered
            /\ FramedPoolDrawn /\ F.drawable => gpu \in CompositeOnly("MAP")

\* C5, amended: the target is re-rendered only when it is drawable and the hash
\* differs from the snapshot; when the pool's linked action has not run since
\* the last draw() and that draw() found the target drawable, the target is not
\* re-rendered: if drawable it is only composited (before hook, target draw,
\* after hook), and otherwise nothing is sent.
C5_NoActionNoRender ==
    LET F == prevFrame["MAP"] IN
    F.drawn =>
        /\ F.rendered => F.drawable /\ F.modified
        /\ F.log = <<>> /\ F.afterDrawable =>
            /\ ~F.rendered
            /\ FramedPoolDrawn =>
                   IF F.drawable THEN gpu \in CompositeOnly("MAP") ELSE gpu = <<>>

\* a draw() that composites the cached target, rendered from primitives by an
\* earlier draw(), with no run of the linked action in between
C5_Witness ==
    LET F == prevFrame["MAP"] IN
    /\ FramedPoolDrawn
    /\ F.log = <<>> /\ F.afterDrawable /\ F.drawable
    /\ status["MAP"].committed # InitialHash
    /\ gpu \in CompositeOnly("MAP")

(***************************************************************************)
(* Properties of the registry, single-threaded (Spec).                     *)
(***************************************************************************)
\* C6: when draw() has returned, the DrawObject list of every pool is empty.
C6_EmptyAfterDraw == last.op = "draw" => \A p \in Pools : objects[p] = <<>>

\* draw() has returned after replaying geometry
C6_Witness ==
    /\ last.op = "draw"
    /\ \E i \in 1..Len(gpu) : gpu[i][1] = "drawCoords"
    /\ \A p \in Pools : objects[p] = <<>>

\* C7: every call that inserts a method or an object into a framed pool changes
\* the pool's running hash.
C7_EveryInsertionHashed ==
    [][\A p \in Pools :
        isFramed(p) /\ last'.op = "call" /\ objects'[p] # objects[p]
            => status'[p].current # status[p].current
      ]_vars

\* C8: a call with a malformed input changes no pool's DrawObject list, no
\* DrawObject and no hash, and does not fail.
C8_MalformedDropped ==
    [][last'.op = "call" /\ last'.malformed
        => UNCHANGED <<objects, status>> /\ failed' = failed
      ]_vars

\* a malformed call made inside a linked action, on a populated pool
C8_Witness ==
    /\ last.op = "call" /\ last.malformed /\ last.building
    /\ \E p \in Pools : objects[p] # <<>>

(***************************************************************************)
(* Properties of the registry, multithreaded (SpecMT).                     *)
(***************************************************************************)
\* C9: with multithreading enabled, a call from a thread whose per-thread
\* current pool is null changes no pool's DrawObject list and no hash, and does
\* not fail.
C9_OffThreadNoOp ==
    [][multiThread /\ last'.op = "call" /\ ~last'.onThread
        => UNCHANGED <<objects, status>> /\ failed' = failed
      ]_vars

\* a call from a thread outside any action while a worker populates a pool
C9_Witness ==
    /\ multiThread /\ last.op = "call" /\ ~last.onThread
    /\ \E p \in Pools : pc[p] = "build" /\ objects[p] # <<>>

\* C10: with multithreading enabled, while draw() replays and clears the pools
\* no population worker is running.
C10_JoinedBeforeReplay ==
    multiThread /\ pc[MainThread] = "draw" => \A p \in Pools : pc[p] = "idle"

\* draw() is about to replay a pool whose worker has cached its geometry
C10_Witness ==
    /\ multiThread /\ pc[MainThread] = "draw"
    /\ \E p \in Pools : objects[p] # <<>> /\ objects[p][1].coordsBuffer # NoBuffer

\* C11: with multithreading enabled, the run of drawObject over a pool's list at
\* the end of a linked action on a population thread sends nothing to the
\* rasterizer and runs no deferred action; it gives every DrawObject without a
\* Geometry Buffer a buffer built from its methods, and leaves every DrawObject
\* that has one untouched.
C11_WorkerOnlyCaches ==
    [][\A t \in Pools :
        multiThread /\ pc[t] = "build" /\ pc'[t] = "idle" =>
            LET p == tCurrentPool[t] IN
            /\ gpu' = gpu
            /\ Len(objects'[p]) = Len(objects[p])
            /\ \A i \in 1..Len(objects[p]) :
                LET obj == objects[p][i] IN
                IF obj.coordsBuffer # NoBuffer
                THEN objects'[p][i] = obj
                ELSE objects'[p][i] =
                        [obj EXCEPT !.coordsBuffer =
                            <<[owner |-> "pool", coords |-> addCoords(obj)]>>]
      ]_vars

\* a pool's action has run twice on its worker: the buffer cached by the first
\* run is still the object's buffer
C11_Witness ==
    \E p \in Pools :
        /\ multiThread /\ pc[p] = "idle"
        /\ Len(SelectSeq(log[p], LAMBDA e : e.op = "link")) = 2
        /\ objects[p] # <<>>
        /\ objects[p][1].coordsBuffer # NoBuffer
        /\ objects[p][1].coordsBuffer[1].owner = "pool"

(***************************************************************************)
(* Properties of the replay (SpecReplay).                                  *)
(***************************************************************************)
\* the objects a stretch of painter calls replays: one entry per deferred action
\* run and per state executed
Replayed(out) == SelectSeq(out, LAMBDA e : e[1] \in {"action", "executeState"})

\* what replaying a list in its order gives: objects without action and without
\* methods send nothing
InListOrder(list) ==
    Flatten([i \in 1..Len(list) |->
                IF list[i].action # NoAction THEN <<<<"action", list[i].action>>>>
                ELSE IF list[i].drawMethods = <<>> THEN <<>>
                ELSE <<<<"executeState", list[i].state>>>>])

Binds(out, pool) == \E i \in 1..Len(out) : out[i] = <<"bind", pool>>

\* C12: draw() starts with the first pool of m_pools and handles the pools one
\* after the other in index order; the iteration of a pool only appends to what
\* was sent before, replays that pool's DrawObjects in the order of its list
\* (all of them, or none when a framed pool's target is not re-rendered), and
\* names no other pool; and a call never reorders a list: it appends new
\* DrawObjects at the end.
C12_ReplayInOrder ==
    [][/\ pc[MainThread] # "draw" /\ pc'[MainThread] = "draw" => idx' = 1 /\ gpu' = <<>>
       /\ pc[MainThread] = "draw" /\ idx' # idx =>
            LET pool == PoolTypes[idx]
                out == SubSeq(gpu', Len(gpu) + 1, Len(gpu'))
            IN  /\ Len(gpu') >= Len(gpu) /\ SubSeq(gpu', 1, Len(gpu)) = gpu
                /\ Replayed(out) = IF isFramed(pool) /\ ~Binds(out, pool) THEN <<>>
                                   ELSE InListOrder(objects[pool])
                /\ \A q \in Pools \ {pool} :
                    \A i \in 1..Len(out) :
                        out[i][1] \in {"bind", "release", "beforeDraw", "frameBufferDraw",
                                       "afterDraw"} => out[i][2] # q
                /\ IF idx < Len(PoolTypes)
                   THEN idx' = idx + 1 /\ pc'[MainThread] = "draw"
                   ELSE pc'[MainThread] = "idle"
       /\ last'.op = "call" =>
            \A p \in Pools :
                /\ Len(objects'[p]) >= Len(objects[p])
                /\ \A i \in 1..Len(objects[p]) :
                    /\ objects'[p][i].state = objects[p][i].state
                    /\ objects'[p][i].action = objects[p][i].action
      ]_vars

\* draw() has returned after re-rendering the framed pool and then replaying two
\* DrawObjects of the plain pool
C12_Witness ==
    /\ last.op = "draw"
    /\ \E i, j \in 1..Len(gpu) :
        /\ i < j
        /\ gpu[i] = <<"bind", "MAP">>
        /\ gpu[j] = <<"restoreSavedState">>
        /\ Len(Replayed(SubSeq(gpu, i, j))) >= 1
        /\ Len(Replayed(SubSeq(gpu, j, Len(gpu)))) >= 2

(***************************************************************************)
(* Properties of the light view (SpecLight).                               *)
(***************************************************************************)
\* C13: while the scene is dark, addLightSource with the position and color of
\* the last stored source leaves the list as long as it was and sets that
\* source's intensity to the maximum of the old and the new intensity; any other
\* call appends exactly the new source; and the list never holds two adjacent
\* sources of equal position and color.
C13_Coalescing ==
    /\ [](\A i \in 1..(Len(sources) - 1) :
            ~(sources[i].pos = sources[i + 1].pos /\ sources[i].color = sources[i + 1].color))
    /\ [][lightOp'.op = "addLightSource" /\ dark =>
            LET light == lightOp'.light[1]
                n == Len(sources)
            IN IF n > 0 /\ sources[n].pos = light.pos /\ sources[n].color = light.color
               THEN /\ Len(sources') = n
                    /\ \A i \in 1..(n - 1) : sources'[i] = sources[i]
                    /\ sources'[n] =
                        [sources[n] EXCEPT !.intensity =
                            IF light.intensity > sources[n].intensity
                            THEN light.intensity ELSE sources[n].intensity]
               ELSE sources' = Append(sources, light)
         ]_vars

\* a weaker light arrived at the place and color of the stored one: one source,
\* of the stronger intensity
C13_Witness ==
    /\ dark /\ lightOp.op = "addLightSource"
    /\ Len(sources) = 1
    /\ sources[1].pos = lightOp.light[1].pos /\ sources[1].color = lightOp.light[1].color
    /\ sources[1].intensity = 7 /\ lightOp.light[1].intensity = 3

\* C14: after every call of LightView::draw the list of pending light sources
\* is empty.
C14_EmptyAfterLightDraw == lightOp.op = "draw" => sources = <<>>

\* C15: when the scene is not dark, addLightSource leaves the source list as it
\* was, and draw() makes no registry call and adds nothing to any pool; after
\* draw() the light pool is enabled exactly if the scene was dark at the call.
C15_DarknessGating ==
    [][/\ lightOp'.op = "addLightSource" /\ ~dark => sources' = sources
       /\ lightOp'.op = "draw" =>
            /\ enabled' = dark
            /\ ~dark => lightOut' = <<>> /\ objects' = objects
      ]_vars

\* draw() has returned in a scene that is not dark, with sources accumulated
\* earlier: the pool is disabled and nothing was sent
C15_Witness ==
    /\ lightOp.op = "draw" /\ ~dark
    /\ sources # <<>>
    /\ ~enabled /\ lightOut = <<>>

\* the places of the sprites in a stretch of registry calls
Sprites(out) == {k \in 1..Len(out) : out[k][1] = "addTexturedRect"}
\* the place of the i-th sprite
Sprite(out, i) ==
    CHOOSE k \in Sprites(out) : Cardinality({j \in Sprites(out) : j <= k}) = i
Flushes(out) == {k \in 1..Len(out) : out[k][1] = "flush"}

\* C19: a dark LightView::draw adds one sprite per accumulated source, in
\* insertion order; the overlay of a shadow marker is added right after its
\* opacity is set to the opacity captured for that source and right before the
\* opacity is reset; a flush comes right before that, after every sprite added
\* earlier, exactly when the marker is the first of a maximal run of shadow
\* markers, and there is no other flush.
C19_FlushPerShadowRun ==
    [][lightOp'.op = "draw" /\ dark =>
        LET out == lightOut'
            n == Len(sources)
            first(i) == i = 1 \/ sources[i - 1].color # 0
        IN  /\ Cardinality(Sprites(out)) = n
            /\ \A i \in 1..n :
                LET k == Sprite(out, i) IN
                /\ out[k][2].pos = sources[i].pos
                /\ IF sources[i].color # 0 THEN out[k][3] = "lightTexture"
                   ELSE /\ out[k][3] = "shadeTexture"
                        /\ out[k - 1][1] = "setOpacity"
                        /\ out[k - 1][2] = sources[i].opacity
                        /\ out[k + 1][1] = "resetOpacity"
                        /\ first(i) <=> out[k - 2][1] = "flush"
            /\ Cardinality(Flushes(out))
                = Cardinality({i \in 1..n : sources[i].color = 0 /\ first(i)})
      ]_vars

\* a pass over a light and then two shadow markers of different opacities: one
\* flush, two overlays
C19_Witness ==
    /\ lightOp.op = "draw"
    /\ Cardinality(Sprites(lightOut)) = 3
    /\ lightOut[Sprite(lightOut, 1)][3] = "lightTexture"
    /\ lightOut[Sprite(lightOut, 2)][3] = "shadeTexture"
    /\ lightOut[Sprite(lightOut, 3)][3] = "shadeTexture"
    /\ lightOut[Sprite(lightOut, 2) - 1] # lightOut[Sprite(lightOut, 3) - 1]
    /\ Cardinality(Flushes(lightOut)) = 1

(***************************************************************************)
(* Properties of the linked action (SpecLink).                             *)
(***************************************************************************)
\* the thread that runs the population action of a pool
Runner(pool) == IF multiThread THEN pool ELSE MainThread

\* the threads of the program: the population workers exist with multithreading
Running == IF multiThread THEN Threads ELSE {MainThread}

\* C16: a linked action makes its pool the current pool of the thread that runs
\* it (the process-wide slot without multithreading, that thread's own slot with
\* it) and, for a framed pool, resets the pool's current hash before buildFn
\* starts; the current pool stays that pool for the whole run of buildFn; when
\* the action ends, every DrawObject accumulated in the pool has been processed
\* (replayed in list order, or given its Geometry Buffer on a worker) and the
\* current pool is null; and a thread that is not running a linked action sees
\* no current pool.
C16_SlotLifecycle ==
    /\ [](\A t \in Running : pc[t] # "build" => getCurrentPool(t) = NoPool)
    /\ [][\A pool \in Pools :
            LET t == Runner(pool) IN
            /\ pc[t] # "build" /\ pc'[t] = "build" /\ log'[pool] # log[pool] =>
                /\ getCurrentPool(t)' = pool
                /\ IF multiThread THEN currentPool' = NoPool
                   ELSE \A w \in Pools : tCurrentPool'[w] = NoPool
                /\ isFramed(pool) => status'[pool].current = InitialHash
            /\ pc[t] = "build" /\ pc'[t] = "build" =>
                getCurrentPool(t)' = getCurrentPool(t)
            /\ pc[t] = "build" /\ getCurrentPool(t) = pool /\ pc'[t] = "idle" =>
                /\ getCurrentPool(t)' = NoPool
                /\ IF multiThread
                   THEN \A i \in 1..Len(objects'[pool]) :
                            \/ objects'[pool][i].coordsBuffer # NoBuffer
                            \/ objects'[pool][i].action # NoAction
                            \/ objects'[pool][i].drawMethods = <<>>
                   ELSE /\ Len(gpu') >= Len(gpu) /\ SubSeq(gpu', 1, Len(gpu)) = gpu
                        /\ Replayed(SubSeq(gpu', Len(gpu) + 1, Len(gpu')))
                             = InListOrder(objects[pool])
      ]_vars

\* a linked action that accumulated a DrawObject has ended and every thread is
\* idle again
C16_Witness ==
    /\ last.op = "link"
    /\ \A t \in Threads : pc[t] = "idle"
    /\ \E p \in Pools : objects[p] # <<>>

\* C17: with multithreading, a population worker running a linked action never
\* writes the process-wide slot m_currentPool.
C17_WorkerKeepsToOwnSlot ==
    [][multiThread /\ last'.op = "link" /\ last'.worker => ~last'.wroteShared]_vars

(***************************************************************************)
(* Properties of addRepeated (SpecRepeat).                                 *)
(***************************************************************************)
\* the first position of the list whose DrawObject has the state, 0 if none
FirstWith(list, state) ==
    IF \A i \in 1..Len(list) : list[i].state # state THEN 0
    ELSE CHOOSE i \in 1..Len(list) :
            /\ list[i].state = state
            /\ \A j \in 1..(i - 1) : list[j].state # state

\* C18: addRepeated appends its method to the first DrawObject of the current
\* pool's list, at any position, whose state equals the call's state, and changes
\* nothing else: the list keeps its length and order and that DrawObject keeps
\* its topology; with no such DrawObject it appends one new DrawObject holding
\* the method at the end of the list; and it never removes a method.
C18_AddRepeated ==
    [][\A p \in Pools :
        /\ last'.op = "call"
        /\ Len(log'[p]) = Len(log[p]) + 1
        /\ log'[p][Len(log'[p])].op = "addRepeated"
        => LET e == log'[p][Len(log'[p])]
               old == objects[p]
               new == objects'[p]
               i == FirstWith(old, e.state)
           IN  /\ IF i # 0
                  THEN /\ Len(new) = Len(old)
                       /\ \A j \in 1..Len(old) : j # i => new[j] = old[j]
                       /\ new[i].drawMethods = Append(old[i].drawMethods, e.method)
                       /\ new[i].drawMode = old[i].drawMode
                       /\ new[i].state = old[i].state
                       /\ new[i].coordsBuffer = old[i].coordsBuffer
                  ELSE /\ Len(new) = Len(old) + 1
                       /\ SubSeq(new, 1, Len(old)) = old
                       /\ new[Len(new)].state = e.state
                       /\ new[Len(new)].drawMethods = <<e.method>>
                       /\ new[Len(new)].drawMode = e.drawMode
               /\ \A j \in 1..Len(old) :
                    /\ Len(new[j].drawMethods) >= Len(old[j].drawMethods)
                    /\ SubSeq(new[j].drawMethods, 1, Len(old[j].drawMethods))
                         = old[j].drawMethods
      ]_vars

\* the last call was an addRepeated that found its state in the first of two
\* DrawObjects and appended to it
C18_Witness ==
    /\ last.op = "call"
    /\ \E p \in Pools :
        /\ Len(objects[p]) >= 2
        /\ log[p] # <<>>
        /\ log[p][Len(log[p])].op = "addRepeated"
        /\ objects[p][1].state = log[p][Len(log[p])].state
        /\ Len(objects[p][1].drawMethods) >= 2
        /\ objects[p][1].drawMethods[Len(objects[p][1].drawMethods)]
             = log[p][Len(log[p])].method

(***************************************************************************)
(* Properties of the replay of accepted primitives (SpecReplay).           *)
(***************************************************************************)
\* the geometry a DrawObject's methods stand for: the caller's vertices of a
\* coords method, the generated coordinates of any other method
Accepted(obj) ==
    Flatten([i \in 1..Len(obj.drawMethods) |->
                IF obj.drawMethods[i].type \in {"DRAW_FILL_COORDS", "DRAW_TEXTURE_COORDS"}
                THEN <<<<"vertices", obj.drawMethods[i].intValue>>>>
                ELSE MethodCoords(obj.drawMethods[i], obj.drawMode)])

\* the geometry the owning thread sends for a DrawObject
Sent(obj) ==
    LET out == SubmitObject(obj)
    IN Flatten([k \in 1..Len(out) |-> IF out[k][1] = "drawCoords" THEN out[k][2] ELSE <<>>])

\* C20: when the owning thread replays a pool's list in draw(), the geometry of
\* every method held by a DrawObject of the list is sent with that DrawObject,
\* also when the method was merged into a DrawObject that carries a Geometry
\* Buffer, and a DrawObject that carries a deferred action holds no method.
C20_NothingLostAtReplay ==
    [][pc[MainThread] = "draw" /\ idx' # idx =>
        LET pool == PoolTypes[idx]
            out == SubSeq(gpu', Len(gpu) + 1, Len(gpu'))
        IN  ~isFramed(pool) \/ Binds(out, pool) =>
                \A i \in 1..Len(objects[pool]) :
                    LET obj == objects[pool][i]
                    IN  IF obj.action # NoAction THEN obj.drawMethods = <<>>
                        ELSE \A g \in 1..Len(Accepted(obj)) :
                                \E k \in 1..Len(Sent(obj)) : Sent(obj)[k] = Accepted(obj)[g]
      ]_vars
====
